---- MODULE Spec2Model ----
(***************************************************************************)
(* spike-echo: a PROXY-protocol aware HTTP echo server that also pings a   *)
(* list of remote hosts.  The model follows the variant with a shared      *)
(* cancellable context (signal handling, startPinging, Start(ctx)).        *)
(* Time is counted in seconds.  A goroutine whose receive or select can    *)
(* proceed does so before time passes; time passes in the Tick action,     *)
(* while lookups, outbound requests, inbound connections and the return of *)
(* srv.Serve are under way.                                                *)
(***************************************************************************)
EXTENDS Integers, Sequences, FiniteSets, TLC

VARIABLES
    remoteAddrs,   \* os.Getenv("REMOTE_ADDR"), a sequence of characters
    portFree,      \* net.Listen on os.Getenv("PORT") can bind the socket
    pcMain,        \* position of main: "resolving", "listen", "serving", "exited"
    hostIdx,       \* index of the next entry of addrs handed to startPinging
    lookups,       \* per call of startPinging: what net.LookupIP returned
    probers,       \* one record per goroutine running pingClient.Start
    now,           \* wall clock, seconds
    sigs,          \* number of signals buffered in the channel sigs (cap 1)
    pcSig,         \* the goroutine of <-sigs; cancel(): "none", "wait", "done"
    cancelled,     \* ctx.Done() is closed
    cancelTime,    \* the time cancel() was called, -1 before
    pcShut,        \* the goroutine of srv.Shutdown: "none", "wait", "draining", "returned"
    shutStart,     \* the time srv.Shutdown was called, -1 before
    pcProm,        \* the goroutine that shuts the server on :8001 down:
                   \* "none", "wait", "shutdown"
    requests,      \* inbound /ping requests, one record per request
    callSummary,   \* histogram vector: label values -> [count, sum]
    pingRequests,  \* counter vector: label values -> count
    exitCode,      \* -1 while the process runs, else the exit status
    fatal,         \* what log.Fatal reported: "", "lookup", "listen", "serve"
    stdout         \* the last line a prober printed

vars == <<remoteAddrs, portFree, pcProm, pcMain, hostIdx, lookups, probers, now, sigs, pcSig,
          cancelled, cancelTime, pcShut, shutStart, requests, callSummary,
          pingRequests, exitCode, fatal, stdout>>

-----------------------------------------------------------------------------
(* Bounds of the model *)

MaxTime == 12
MaxStartup == 1
MaxRequests == 2

(* Constants of the program *)

TickInterval == 1
PingTimeout == 10
ShutdownGrace == 5
StatusOK == 200

availabilityZone == "az1"

Nil == "<nil>"

-----------------------------------------------------------------------------
(* strings.Split over sequences of characters *)

RECURSIVE SplitAcc(_, _, _, _)
SplitAcc(s, sep, i, cur) ==
    IF i > Len(s) THEN <<cur>>
    ELSE IF s[i] = sep THEN <<cur>> \o SplitAcc(s, sep, i + 1, <<>>)
    ELSE SplitAcc(s, sep, i + 1, Append(cur, s[i]))

Split(s, sep) == SplitAcc(s, sep, 1, <<>>)

(* The values of REMOTE_ADDR the model starts from *)
RemoteAddrEnvs ==
    { <<>>,
      <<"a">>,
      <<"b", ",", "c">>,
      <<"c", ",">>,
      <<"d">> }

(* IP addresses the resolver can return *)
IP4a == [fam |-> "v4", a |-> "10.0.0.1"]
IP4b == [fam |-> "v4", a |-> "10.0.0.2"]
IP6a == [fam |-> "v6", a |-> "fd00::1"]

(* net.LookupIP: an error, or a non-empty list of addresses *)
LookupIP(host) ==
    IF host = <<"a">> THEN
        { [err |-> FALSE, ips |-> <<IP6a, IP4a>>],
          [err |-> FALSE, ips |-> <<IP4a, IP4b>>] }
    ELSE IF host = <<"b">> THEN
        { [err |-> FALSE, ips |-> <<IP4a>>] }
    ELSE IF host = <<"c">> THEN
        { [err |-> TRUE, ips |-> <<>>],
          [err |-> FALSE, ips |-> <<IP4b>>],
          [err |-> FALSE, ips |-> <<IP4a>>] }
    ELSE IF host = <<"d">> THEN
        { [err |-> TRUE, ips |-> <<>>],
          [err |-> FALSE, ips |-> <<IP6a>>] }
    ELSE { [err |-> TRUE, ips |-> <<>>] }

(* net.IP.To4: the 4 byte form, nil for an address that is not IPv4 *)
To4(ip) == IF ip.fam = "v4" THEN ip.a ELSE Nil

(* fmt.Sprintf("http://%s:8000/ping", ip.To4()) *)
RemoteEndpoint(ip) == <<"http://", To4(ip), ":8000/ping">>

NoOutcome == [kind |-> "none", status |-> 0]

(* if ip.To4() == nil { continue } *)
SkipNoAddress(ip) == FALSE

SkipAddress(ip) == To4(ip) = Nil

(* go newPingClient(remoteEndpoint).Start(ctx): the goroutine enters its
   select, time.After(time.Second) is armed at the present time *)
newPingClientPingsFirst(ip, h, j) ==
    [ endpoint |-> RemoteEndpoint(ip), host |-> h, src |-> j,
      pc |-> "waiting", timer |-> now, pingStart |-> -1, pings |-> 0,
      outcome |-> NoOutcome, err |-> "nil", obs |-> <<>>, obsTime |-> -1 ]

newPingClient(ip, h, j) ==
    [ endpoint |-> RemoteEndpoint(ip),
      host |-> h,            \* the call of startPinging that started it
      src |-> j,             \* the position of its address in the lookup
      pc |-> "waiting",      \* "waiting", "pinging", "observed", "returned", "killed"
      timer |-> now + TickInterval,
      pingStart |-> -1,
      pings |-> 0,           \* pings completed
      outcome |-> NoOutcome, \* what the request of this iteration met
      err |-> "nil",         \* err of this iteration
      obs |-> <<>>,          \* the observation of this iteration: labels, value
      obsTime |-> -1 ]       \* time of the last observation

(* the loop over ips of startPinging, from position j on *)
RECURSIVE StartClients(_, _, _)
StartClients(ips, h, j) ==
    IF j > Len(ips) THEN <<>>
    ELSE IF SkipAddress(ips[j]) THEN StartClients(ips, h, j + 1)
    ELSE <<newPingClient(ips[j], h, j)>> \o StartClients(ips, h, j + 1)

(* addrs := strings.Split(remoteAddrs, ","), nothing for an empty variable *)
AddrsOfEmptyToo == Split(remoteAddrs, ",")

Addrs == IF remoteAddrs = <<>> THEN <<>> ELSE Split(remoteAddrs, ",")

(* os.Exit: every goroutine and every request in flight ends with the process *)
KillProber(p) == IF p.pc = "returned" THEN p ELSE [p EXCEPT !.pc = "killed"]

DropRequest(r) == IF r.pc = "done" THEN r ELSE [r EXCEPT !.pc = "dropped"]

(* log.Fatal, log.Fatalf: os.Exit(1) *)
Fatal(msg) ==
    /\ pcMain' = "exited"
    /\ exitCode' = 1
    /\ fatal' = msg
    /\ probers' = [i \in DOMAIN probers |-> KillProber(probers[i])]
    /\ requests' = [k \in DOMAIN requests |-> DropRequest(requests[k])]

Running == pcMain # "exited"

-----------------------------------------------------------------------------
Init ==
    /\ remoteAddrs \in RemoteAddrEnvs
    /\ portFree \in BOOLEAN
    /\ pcProm = "none"
    /\ pcMain = "resolving"
    /\ hostIdx = 1
    /\ lookups = <<>>
    /\ probers = <<>>
    /\ now = 0
    /\ sigs = 0
    /\ pcSig = "none"
    /\ cancelled = FALSE
    /\ cancelTime = -1
    /\ pcShut = "none"
    /\ shutStart = -1
    /\ requests = <<>>
    /\ callSummary = <<>>
    /\ pingRequests = <<>>
    /\ exitCode = -1
    /\ fatal = ""
    /\ stdout = [line |-> "", err |-> "nil", endpoint |-> <<>>]

(* if err != nil { log.Fatalf(...) } after net.LookupIP *)
LookupFatalNever(r) == FALSE

LookupFatal(r) == r.err

(* startPinging(ctx, addr) for the next entry of addrs *)
StartPinging ==
    /\ pcMain = "resolving"
    /\ hostIdx <= Len(Addrs)
    /\ \E r \in LookupIP(Addrs[hostIdx]) :
         /\ lookups' = Append(lookups, [host |-> Addrs[hostIdx], err |-> r.err, ips |-> r.ips])
         /\ IF LookupFatal(r)
              THEN /\ Fatal("lookup")
                   /\ UNCHANGED hostIdx
              ELSE /\ probers' = probers \o StartClients(r.ips, hostIdx, 1)
                   /\ hostIdx' = hostIdx + 1
                   /\ UNCHANGED <<pcMain, exitCode, fatal, requests>>
    /\ UNCHANGED <<remoteAddrs, portFree, pcProm,
                   now, sigs, pcSig, cancelled, cancelTime,
                   pcShut, shutStart, callSummary, pingRequests, stdout>>

(* the loop over addrs is over (or REMOTE_ADDR is empty) *)
ResolveDone ==
    /\ pcMain = "resolving"
    /\ hostIdx > Len(Addrs)
    /\ pcMain' = "listen"
    /\ UNCHANGED <<remoteAddrs, portFree, pcProm,
                   hostIdx, lookups, probers, now, sigs, pcSig,
                   cancelled, cancelTime, pcShut, shutStart, requests,
                   callSummary, pingRequests, exitCode, fatal, stdout>>

(* net.Listen fails: log.Fatalf *)
ListenFail ==
    /\ pcMain = "listen"
    /\ ~portFree
    /\ Fatal("listen")
    /\ UNCHANGED <<remoteAddrs, portFree, pcProm,
                   hostIdx, lookups, now, sigs, pcSig,
                   cancelled, cancelTime, pcShut, shutStart, callSummary,
                   pingRequests, stdout>>

(* net.Listen succeeds; createPrometheusEndpoint and the two goroutines
   are started, signal.Notify is called and main blocks in srv.Serve *)
ListenOk ==
    /\ pcMain = "listen"
    /\ portFree
    /\ pcMain' = "serving"
    /\ pcShut' = "wait"
    /\ pcSig' = "wait"
    /\ pcProm' = "wait"
    /\ UNCHANGED <<remoteAddrs, portFree,
                   hostIdx, lookups, probers, now, sigs,
                   cancelled, cancelTime, shutStart, requests, callSummary,
                   pingRequests, exitCode, fatal, stdout>>

-----------------------------------------------------------------------------
(* pingClient.Start and pingClient.ping *)

(* case <-ctx.Done() can be taken *)
CtxNeverDone == FALSE

CtxDoneReady == cancelled

(* case <-time.After(time.Second) can be taken *)
TimerReadyAtOnce(p) == TRUE

TimerReady(p) == now >= p.timer

(* time.After(time.Second) is evaluated when the select is entered *)
NextTimerOfTicker(p) == p.timer + TickInterval

NextTimer(p) == now + TickInterval

(* http.NewRequestWithContext fails on a URL that does not parse; every
   endpoint built by startPinging is http://<host>:8000/ping *)
NewRequestErr(endpoint) == ~(Len(endpoint) = 3 /\ endpoint[1] = "http://")

(* what p.client.Do can give for a request started d seconds ago: the
   connection is refused, a response arrives, or the 10 second deadline of
   the context expires *)
Statuses == {200, 204, 500}

RespDelays == {0, 9}

DoOutcomes(d) ==
    (IF d = 0 THEN {[kind |-> "refused", status |-> 0]} ELSE {})
      \cup (IF d >= PingTimeout THEN {[kind |-> "timeout", status |-> 0]} ELSE {})
      \cup (IF d \in RespDelays
             THEN {[kind |-> "resp", status |-> st] : st \in Statuses} ELSE {})

(* the value ping returns *)
pingAny2xx(endpoint, o) ==
    IF NewRequestErr(endpoint) THEN "request"
    ELSE IF o.kind # "resp" THEN o.kind
    ELSE IF o.status \div 100 # 2 THEN "status"
    ELSE "nil"

ping(endpoint, o) ==
    IF NewRequestErr(endpoint) THEN "request"
    ELSE IF o.kind # "resp" THEN o.kind
    ELSE IF o.status # StatusOK THEN "status"
    ELSE "nil"

(* the label values of callSummary.WithLabelValues(availabilityZone, p.endpoint) *)
SummaryLabelsOfZone(p) == <<availabilityZone, <<>>>>

SummaryLabels(p) == <<availabilityZone, p.endpoint>>

(* duration.Milliseconds() of a duration of d seconds *)
Milliseconds(d) == d * 1000

(* HistogramVec/CounterVec: the child of the label values is created on first use *)
Observe(vec, labels, v) ==
    IF labels \in DOMAIN vec
      THEN [vec EXCEPT ![labels] = [count |-> @.count + 1, sum |-> @.sum + v]]
      ELSE vec @@ (labels :> [count |-> 1, sum |-> v])

Inc(vec, labels) ==
    IF labels \in DOMAIN vec
      THEN [vec EXCEPT ![labels] = @ + 1]
      ELSE vec @@ (labels :> 1)

(* whether Observe is called for a ping that returned err: it is called
   before err is looked at *)
ObservesSuccess(err) == err = "nil"

Observes(err) == TRUE

(* where the loop goes after a ping: both the continue and the end of the
   case lead back to the select *)
LoopStopsOnError(err) == IF err # "nil" THEN "returned" ELSE "waiting"

LoopAfterPing(err) == "waiting"

(* the timer case of the select fires: the request goes out *)
ProberTickInTurn(i) ==
    /\ Running
    /\ probers[i].pc = "waiting"
    /\ TimerReady(probers[i])
    /\ \A j \in DOMAIN probers : probers[j].pc # "pinging"
    /\ probers' = [probers EXCEPT ![i] =
          [@ EXCEPT !.pc = "pinging", !.pingStart = now]]
    /\ UNCHANGED <<remoteAddrs, portFree, pcProm,
                   pcMain, hostIdx, lookups, now, sigs, pcSig,
                   cancelled, cancelTime, pcShut, shutStart, requests,
                   callSummary, pingRequests, exitCode, fatal, stdout>>

ProberTick(i) ==
    /\ Running
    /\ probers[i].pc = "waiting"
    /\ TimerReady(probers[i])
    /\ probers' = [probers EXCEPT ![i] =
          [@ EXCEPT !.pc = "pinging", !.pingStart = now]]
    /\ UNCHANGED <<remoteAddrs, portFree, pcProm,
                   pcMain, hostIdx, lookups, now, sigs, pcSig,
                   cancelled, cancelTime, pcShut, shutStart, requests,
                   callSummary, pingRequests, exitCode, fatal, stdout>>

(* the ctx.Done() case of the select: Start returns *)
ProberDone(i) ==
    /\ Running
    /\ probers[i].pc = "waiting"
    /\ CtxDoneReady
    /\ probers' = [probers EXCEPT ![i] = [@ EXCEPT !.pc = "returned"]]
    /\ UNCHANGED <<remoteAddrs, portFree, pcProm,
                   pcMain, hostIdx, lookups, now, sigs, pcSig,
                   cancelled, cancelTime, pcShut, shutStart, requests,
                   callSummary, pingRequests, exitCode, fatal, stdout>>

(* ping returns and the duration is observed *)
PingReturn(i) ==
    /\ Running
    /\ probers[i].pc = "pinging"
    /\ LET p == probers[i]
           d == now - p.pingStart
       IN \E o \in DoOutcomes(d) :
            LET err == ping(p.endpoint, o)
                ob == <<SummaryLabels(p), Milliseconds(d)>>
            IN /\ callSummary' = IF Observes(err)
                                   THEN Observe(callSummary, ob[1], ob[2])
                                   ELSE callSummary
               /\ probers' = [probers EXCEPT ![i] =
                     [@ EXCEPT !.pc = "observed",
                               !.pings = @ + 1,
                               !.outcome = o,
                               !.err = err,
                               !.obs = IF Observes(err) THEN ob ELSE <<>>,
                               !.obsTime = IF Observes(err) THEN now ELSE p.obsTime]]
    /\ UNCHANGED <<remoteAddrs, portFree, pcProm,
                   pcMain, hostIdx, lookups, now, sigs, pcSig,
                   cancelled, cancelTime, pcShut, shutStart, requests,
                   pingRequests, exitCode, fatal, stdout>>

(* if err != nil { Printf; continue }: the iteration ends, its locals are
   gone, and the select is entered again with a new time.After *)
LoopBack(i) ==
    /\ Running
    /\ probers[i].pc = "observed"
    /\ stdout' = IF probers[i].err # "nil"
                   THEN [line |-> "Received err", err |-> probers[i].err,
                         endpoint |-> probers[i].endpoint]
                   ELSE stdout
    /\ probers' = [probers EXCEPT ![i] =
          [@ EXCEPT !.pc = LoopAfterPing(probers[i].err),
                    !.timer = NextTimer(probers[i]),
                    !.outcome = NoOutcome,
                    !.err = "nil",
                    !.obs = <<>>]]
    /\ UNCHANGED <<remoteAddrs, portFree, pcProm,
                   pcMain, hostIdx, lookups, now, sigs, pcSig,
                   cancelled, cancelTime, pcShut, shutStart, requests,
                   callSummary, pingRequests, exitCode, fatal>>

-----------------------------------------------------------------------------
(* the inbound server *)

(* the addresses inbound connections come from *)
RemoteIPs ==
    { <<"192.0.2.7">>,
      <<"2001", ":", "db8", ":", ":", "1">>,
      <<"2001", ":", "db8", ":", ":", "2">> }

IsIPv6(ip) == \E n \in DOMAIN ip : ip[n] = ":"

(* r.RemoteAddr as the listener gives it: host:port, an IPv6 host in brackets *)
JoinHostPort(ip, port) ==
    IF IsIPv6(ip) THEN <<"[">> \o ip \o <<"]", ":", port>>
                  ELSE ip \o <<":", port>>

RemoteAddrForms == { JoinHostPort(ip, "4000") : ip \in RemoteIPs }

(* the patterns of the mux that lead to a handler of this program, and the
   requests that come in: /ping from every address, /healthz from one *)
Paths == {"/ping", "/healthz"}

InboundRequests ==
    { [ip |-> ip, path |-> "/ping"] : ip \in RemoteIPs }
        \cup { [ip |-> <<"192.0.2.7">>, path |-> "/healthz"] }

(* remoteAddr[0] panics when the slice is empty *)
HandlerPanicsUnlessHostPort(remoteAddr) == Len(Split(remoteAddr, ":")) # 2

HandlerPanics(remoteAddr) == Len(Split(remoteAddr, ":")) < 1

(* a connection is accepted and its request is on its way to the handler
   of its path *)
Accept ==
    /\ pcMain = "serving"
    /\ pcShut \in {"none", "wait"}
    /\ Len(requests) < MaxRequests
    /\ \E q \in InboundRequests :
         requests' = Append(requests,
            [ip |-> q.ip, path |-> q.path,
             remoteAddr |-> JoinHostPort(q.ip, "4000"),
             pc |-> "handling", status |-> 0, body |-> "",
             atCancel |-> FALSE])
    /\ UNCHANGED <<remoteAddrs, portFree, pcProm,
                   pcMain, hostIdx, lookups, probers, now, sigs,
                   pcSig, cancelled, cancelTime, pcShut, shutStart,
                   callSummary, pingRequests, exitCode, fatal, stdout>>

(* healthHandler: w.WriteHeader(http.StatusOK), nothing is written to the
   body; the handler returns, which sends the response *)
healthHandler(k) ==
    /\ Running
    /\ requests[k].path = "/healthz"
    /\ requests[k].pc = "handling"
    /\ requests' = [requests EXCEPT ![k] =
          [@ EXCEPT !.pc = "done", !.status = StatusOK]]
    /\ UNCHANGED <<remoteAddrs, portFree, pcProm,
                   pcMain, hostIdx, lookups, probers, now, sigs,
                   pcSig, cancelled, cancelTime, pcShut, shutStart,
                   callSummary, pingRequests, exitCode, fatal, stdout>>

(* w.WriteHeader(http.StatusOK); w.Write([]byte("ok")) *)
HandlerWrite(k) ==
    /\ Running
    /\ requests[k].path = "/ping"
    /\ requests[k].pc = "handling"
    /\ requests' = [requests EXCEPT ![k] =
          [@ EXCEPT !.pc = "written", !.status = StatusOK, !.body = "ok"]]
    /\ UNCHANGED <<remoteAddrs, portFree, pcProm,
                   pcMain, hostIdx, lookups, probers, now, sigs,
                   pcSig, cancelled, cancelTime, pcShut, shutStart,
                   callSummary, pingRequests, exitCode, fatal, stdout>>

(* the counter of the source address is incremented and the handler
   returns, which sends the response *)
HandlerInc(k) ==
    /\ Running
    /\ requests[k].pc = "written"
    /\ IF HandlerPanics(requests[k].remoteAddr)
         THEN /\ requests' = [requests EXCEPT ![k] = [@ EXCEPT !.pc = "panicked"]]
              /\ UNCHANGED pingRequests
         ELSE /\ pingRequests' = Inc(pingRequests, <<Split(requests[k].remoteAddr, ":")[1]>>)
              /\ requests' = [requests EXCEPT ![k] = [@ EXCEPT !.pc = "done"]]
    /\ UNCHANGED <<remoteAddrs, portFree, pcProm,
                   pcMain, hostIdx, lookups, probers, now, sigs,
                   pcSig, cancelled, cancelTime, pcShut, shutStart,
                   callSummary, exitCode, fatal, stdout>>

-----------------------------------------------------------------------------
(* signals and shutdown *)

(* SIGINT or SIGTERM is delivered; the channel sigs holds one signal.  A
   signal that comes after the goroutine has received one stays in the
   channel and is never read: it is left out *)
Signal ==
    /\ pcMain = "serving"
    /\ pcSig = "wait"
    /\ sigs < 1
    /\ sigs' = sigs + 1
    /\ UNCHANGED <<remoteAddrs, portFree, pcProm,
                   pcMain, hostIdx, lookups, probers, now,
                   pcSig, cancelled, cancelTime, pcShut, shutStart, requests,
                   callSummary, pingRequests, exitCode, fatal, stdout>>

InFlight(r) == r.pc \in {"handling", "written"}

(* <-sigs; cancel() *)
SigCancel ==
    /\ Running
    /\ pcSig = "wait"
    /\ sigs > 0
    /\ sigs' = sigs - 1
    /\ pcSig' = "done"
    /\ cancelled' = TRUE
    /\ cancelTime' = now
    /\ requests' = [k \in DOMAIN requests |->
                      [requests[k] EXCEPT !.atCancel = InFlight(requests[k])]]
    /\ UNCHANGED <<remoteAddrs, portFree, pcProm,
                   pcMain, hostIdx, lookups, probers, now,
                   pcShut, shutStart, callSummary, pingRequests, exitCode,
                   fatal, stdout>>

(* <-ctx.Done(); srv.Shutdown(timeout) closes the listener and starts to
   wait for the connections *)
ShutdownStart ==
    /\ Running
    /\ pcShut = "wait"
    /\ cancelled
    /\ pcShut' = "draining"
    /\ shutStart' = now
    /\ UNCHANGED <<remoteAddrs, portFree, pcProm,
                   pcMain, hostIdx, lookups, probers, now, sigs,
                   pcSig, cancelled, cancelTime, requests, callSummary,
                   pingRequests, exitCode, fatal, stdout>>

(* srv.Shutdown returns: no connection is active, or the 5 seconds are over *)
ShutdownReturn ==
    /\ Running
    /\ pcShut = "draining"
    /\ \/ \A k \in DOMAIN requests : ~InFlight(requests[k])
       \/ now >= shutStart + ShutdownGrace
    /\ pcShut' = "returned"
    /\ UNCHANGED <<remoteAddrs, portFree, pcProm,
                   pcMain, hostIdx, lookups, probers, now, sigs,
                   pcSig, cancelled, cancelTime, shutStart, requests,
                   callSummary, pingRequests, exitCode, fatal, stdout>>

(* createPrometheusEndpoint: <-ctx.Done(); srv.Shutdown(timeout) of the
   server on :8001 *)
PromShutdown ==
    /\ Running
    /\ pcProm = "wait"
    /\ cancelled
    /\ pcProm' = "shutdown"
    /\ UNCHANGED <<remoteAddrs, portFree,
                   pcMain, hostIdx, lookups, probers, now, sigs,
                   pcSig, cancelled, cancelTime, pcShut, shutStart, requests,
                   callSummary, pingRequests, exitCode, fatal, stdout>>

(* the listener of the inbound server is closed: Shutdown was called *)
ListenerNeverClosed == FALSE

ListenerClosed == pcShut \in {"draining", "returned"}

(* srv.Serve returns ErrServerClosed as soon as Shutdown was called, and
   log.Fatal exits *)
ServeReturns ==
    /\ pcMain = "serving"
    /\ ListenerClosed
    /\ Fatal("serve")
    /\ UNCHANGED <<remoteAddrs, portFree, pcProm,
                   hostIdx, lookups, now, sigs, pcSig,
                   cancelled, cancelTime, pcShut, shutStart, callSummary,
                   pingRequests, stdout>>

-----------------------------------------------------------------------------
(* time *)

(* ctx of ping: context.WithTimeout(context.Background(), 10*time.Second),
   made when ping is entered *)
DeadlineOfAMinute(p) == p.pingStart + 6 * PingTimeout

Deadline(p) == p.pingStart + PingTimeout

Urgent(p) ==
    \/ p.pc = "waiting" /\ (CtxDoneReady \/ TimerReady(p))
    \/ p.pc = "pinging" /\ now >= Deadline(p)
    \/ p.pc = "observed"

UrgentShutdown ==
    \/ pcSig = "wait" /\ sigs > 0
    \/ pcShut = "wait" /\ cancelled
    \/ pcShut = "draining" /\ (\A k \in DOMAIN requests : ~InFlight(requests[k]))
    \/ pcShut = "draining" /\ now >= shutStart + ShutdownGrace

Tick ==
    /\ Running
    /\ now < MaxTime
    /\ pcMain # "serving" => now < MaxStartup
    /\ \A i \in DOMAIN probers : ~Urgent(probers[i])
    /\ ~UrgentShutdown
    /\ now' = now + 1
    /\ UNCHANGED <<remoteAddrs, portFree, pcProm,
                   pcMain, hostIdx, lookups, probers, sigs,
                   pcSig, cancelled, cancelTime, pcShut, shutStart, requests,
                   callSummary, pingRequests, exitCode, fatal, stdout>>

-----------------------------------------------------------------------------
Startup == StartPinging \/ ResolveDone \/ ListenFail \/ ListenOk

Probing ==
    \/ \E i \in DOMAIN probers : ProberTick(i)
    \/ \E i \in DOMAIN probers : ProberDone(i)
    \/ \E i \in DOMAIN probers : PingReturn(i)
    \/ \E i \in DOMAIN probers : LoopBack(i)

Inbound ==
    \/ Accept
    \/ \E k \in DOMAIN requests : healthHandler(k)
    \/ \E k \in DOMAIN requests : HandlerWrite(k)
    \/ \E k \in DOMAIN requests : HandlerInc(k)

Stopping == Signal \/ SigCancel \/ ShutdownStart \/ ShutdownReturn \/ ServeReturns

Next == Startup \/ Probing \/ Inbound \/ Stopping \/ PromShutdown \/ Tick

Spec == Init /\ [][Next]_vars

(* the process when no inbound request arrives; the goroutine of the
   server on :8001, which changes pcProm only, is left out, as it is in
   SpecServe and SpecQuiet *)
NextProbe == Startup \/ Probing \/ Stopping \/ Tick

SpecProbe == Init /\ [][NextProbe]_vars

(* the process when REMOTE_ADDR leads to no prober *)
ServeEnvs == { <<>>, <<"d">> }

InitServe == Init /\ remoteAddrs \in ServeEnvs

NextServe == Startup \/ Inbound \/ Stopping \/ Tick

SpecServe == InitServe /\ [][NextServe]_vars

(* the process with two probers and one inbound connection, when no signal
   is delivered: the context is never cancelled, and the ctx.Done() case
   of the select is never taken *)
AcceptFirst == requests = <<>> /\ Accept

InitQuiet == Init /\ remoteAddrs = <<"a">>

NextQuiet ==
    \/ Startup
    \/ \E i \in DOMAIN probers : ProberTick(i)
    \/ \E i \in DOMAIN probers : PingReturn(i)
    \/ \E i \in DOMAIN probers : LoopBack(i)
    \/ AcceptFirst
    \/ \E k \in DOMAIN requests : healthHandler(k)
    \/ \E k \in DOMAIN requests : HandlerWrite(k)
    \/ \E k \in DOMAIN requests : HandlerInc(k)
    \/ Tick

SpecQuiet == InitQuiet /\ [][NextQuiet]_vars

(* the process with the probers of one hostname and no inbound request,
   all goroutines included.  Goroutines that can take a step are run by
   the scheduler: the one that waits for the signal, the two that wait for
   ctx.Done(), and main when srv.Serve has returned *)
StopEnvs == { <<"a">> }

InitStop == Init /\ remoteAddrs \in StopEnvs

NextStop == Startup \/ Probing \/ Stopping \/ PromShutdown \/ Tick

SpecStopLive ==
    /\ InitStop /\ [][NextStop]_vars
    /\ WF_vars(SigCancel)
    /\ WF_vars(ShutdownStart)
    /\ WF_vars(PromShutdown)
    /\ WF_vars(ServeReturns)

(* main is one goroutine that the scheduler runs: a step of the startup
   that can be taken is taken *)
SpecServeLive == SpecServe /\ WF_vars(Startup)

-----------------------------------------------------------------------------
(* Properties *)

Stopped(p) == p.pc \in {"returned", "killed"}

(* C1: once the context is cancelled, no prober starts a ping later than
   one tick interval after the call of cancel(), whether it was waiting on
   its timer or inside a request when cancel() was called *)
C1_NoPingAfterCancel ==
    cancelled =>
        \A i \in DOMAIN probers : probers[i].pingStart <= cancelTime + TickInterval

(* a prober that was inside a request at cancel() has come back from it
   more than a tick later and has returned without another ping *)
C1_Witness ==
    /\ Running
    /\ cancelled
    /\ now > cancelTime + TickInterval
    /\ \E i \in DOMAIN probers :
         /\ probers[i].pc = "returned"
         /\ probers[i].pingStart >= 0
         /\ probers[i].pingStart < cancelTime
         /\ probers[i].obsTime > cancelTime + TickInterval

(* C2 as stated: one tick interval after cancel() every Start has returned,
   also that of a prober with a request in flight *)
C2_AllReturnedWithinTick ==
    (Running /\ cancelled /\ now > cancelTime + TickInterval) =>
        \A i \in DOMAIN probers : probers[i].pc = "returned"

(* a prober is finishing the request it had in flight at cancel() *)
Finishing(p) ==
    /\ p.pingStart >= 0
    /\ p.pingStart <= cancelTime
    /\ \/ p.pc = "pinging"
       \/ p.pc \in {"observed", "waiting"} /\ p.obsTime = now

(* one prober returned at cancel(), another is still in the request it
   started before cancel() *)
C2_Witness ==
    /\ Running
    /\ cancelled
    /\ now > cancelTime + TickInterval
    /\ \E i, j \in DOMAIN probers :
         /\ probers[i].pc = "returned"
         /\ probers[i].obsTime <= cancelTime
         /\ probers[j].pc = "pinging"
         /\ probers[j].pingStart < cancelTime

(* C2 amended: one tick interval after cancel() every prober has stopped
   or is still finishing the request that was in flight at cancel(); such
   a prober returns when the request is over, at most the ping timeout
   after cancel() *)
C2_ReturnedOrInFlight ==
    cancelled =>
        /\ now > cancelTime + TickInterval =>
             \A i \in DOMAIN probers : Stopped(probers[i]) \/ Finishing(probers[i])
        /\ now > cancelTime + PingTimeout =>
             \A i \in DOMAIN probers : Stopped(probers[i])

(* C3: a request that is in flight when cancel() is called is not dropped
   by the end of the process before the grace period of Shutdown is over *)
C3_InFlightAnsweredWithinGrace ==
    \A k \in DOMAIN requests :
        (requests[k].atCancel /\ requests[k].pc = "dropped") =>
            (shutStart # -1 /\ now >= shutStart + ShutdownGrace)

(* C4: a ping that failed ends in the select again with a new timer, it
   neither ends the loop nor the process; and a prober that waits leaves
   the select for the next ping when its timer is due, unless the context
   is cancelled *)
C4_FailedPingContinues ==
    [][\A i \in DOMAIN probers :
          /\ (probers[i].pc = "observed" /\ probers[i].err # "nil"
                /\ probers'[i] # probers[i]) =>
                \/ /\ probers'[i].pc = "waiting"
                   /\ probers'[i].timer = now + TickInterval
                   /\ pcMain' = pcMain
                \/ /\ probers'[i].pc = "killed"
                   /\ fatal' \in {"lookup", "listen", "serve"}
          /\ (probers[i].pc = "waiting" /\ ~cancelled
                /\ probers'[i].pc \notin {"waiting", "killed"}) =>
                (probers'[i].pc = "pinging" /\ now = probers[i].timer)
          /\ (probers[i].pc = "waiting" /\ ~cancelled /\ Running) =>
                now <= probers[i].timer]_vars

(* a prober is in its next request after a failed one *)
C4_Witness ==
    /\ Len(probers) = 1
    /\ stdout.line = "Received err"
    /\ probers[1].pc = "pinging"
    /\ probers[1].pings >= 1

(* C5 as stated: the observation tells a failed ping from a successful one
   of the same duration to the same target *)
C5_ObservationCarriesOutcome ==
    \A i, j \in DOMAIN probers :
        (probers[i].pc = "observed" /\ probers[j].pc = "observed"
           /\ probers[i].obs = probers[j].obs) =>
            ((probers[i].err = "nil") <=> (probers[j].err = "nil"))

(* C5 amended: every ping, failed or not, is recorded as one observation
   of its duration under the labels (availability zone, endpoint), with
   no outcome in it; a failure shows only in the line printed *)
C5_DurationObservedWhateverOutcome ==
    [][\A i \in DOMAIN probers :
          /\ (probers[i].pc = "pinging" /\ probers'[i].pc = "observed") =>
                LET l == <<"az1", probers[i].endpoint>>
                    ms == 1000 * (now - probers[i].pingStart)
                    old == IF l \in DOMAIN callSummary
                             THEN callSummary[l] ELSE [count |-> 0, sum |-> 0]
                IN /\ l \in DOMAIN callSummary'
                   /\ callSummary'[l].count = old.count + 1
                   /\ callSummary'[l].sum = old.sum + ms
                   /\ probers'[i].obs = <<l, ms>>
          /\ (probers[i].pc = "observed" /\ probers'[i].pc = "waiting") =>
                IF probers[i].err # "nil"
                  THEN stdout' = [line |-> "Received err", err |-> probers[i].err,
                                  endpoint |-> probers[i].endpoint]
                  ELSE stdout' = stdout]_vars

C5_Witness ==
    \E i \in DOMAIN probers :
        /\ probers[i].pc = "observed"
        /\ probers[i].err # "nil"
        /\ probers[i].obs # <<>>
        /\ probers[i].obs[1] \in DOMAIN callSummary

(* the probers started by the h-th call of startPinging *)
StartedBy(h) == {i \in DOMAIN probers : probers[i].host = h}

(* C6 as stated: a lookup that gives N addresses starts N probers *)
C6_OneProberPerAddress ==
    \A h \in DOMAIN lookups :
        ~lookups[h].err => Cardinality(StartedBy(h)) = Len(lookups[h].ips)

(* C6 amended: a lookup that gives N addresses starts one prober for each
   IPv4 address among them, with the endpoint of that address; the other
   addresses get no prober *)
C6_OneProberPerIPv4Address ==
    \A h \in DOMAIN lookups :
        ~lookups[h].err =>
            LET ips == lookups[h].ips
                V4 == {j \in DOMAIN ips : ips[j].fam = "v4"}
            IN /\ \A j \in V4 :
                    Cardinality({i \in StartedBy(h) : probers[i].src = j}) = 1
               /\ \A i \in StartedBy(h) :
                    /\ probers[i].src \in V4
                    /\ probers[i].endpoint =
                         <<"http://", ips[probers[i].src].a, ":8000/ping">>
               /\ Cardinality(StartedBy(h)) = Cardinality(V4)

C6_Witness ==
    \E h \in DOMAIN lookups :
        /\ ~lookups[h].err
        /\ \E j \in DOMAIN lookups[h].ips : lookups[h].ips[j].fam = "v6"
        /\ Cardinality(StartedBy(h)) = 1

(* C7: every response of pingHandler is 200 with the body "ok" and the
   handler does not panic, whatever the form of the remote address and
   whatever other requests are handled meanwhile *)
C7_PingAlwaysOk ==
    \A k \in DOMAIN requests :
        /\ requests[k].pc # "panicked"
        /\ (requests[k].path = "/ping" /\ requests[k].pc \in {"written", "done"}) =>
             (requests[k].status = 200 /\ requests[k].body = "ok")

(* a request with a bracketed IPv6 remote address got its response while
   another request was in flight *)
C7_Witness ==
    \E k, m \in DOMAIN requests :
        /\ requests[k].pc = "done"
        /\ requests[k].path = "/ping"
        /\ Len(requests[k].remoteAddr) > 3
        /\ requests[m].pc \in {"handling", "written"}

(* C8 as stated: with a target that answers 200, two consecutive
   observations of a prober are one tick interval apart *)
C8_OneObservationPerTick ==
    [][\A i \in DOMAIN probers :
          (probers[i].pc = "pinging" /\ probers'[i].pc = "observed"
             /\ probers[i].obsTime # -1 /\ probers'[i].err = "nil"
             /\ stdout.line = "") =>
              probers'[i].obsTime - probers[i].obsTime = TickInterval]_vars

(* C8 amended: two consecutive observations of a prober are one tick
   interval plus the duration of the later request apart *)
C8_TickPlusDuration ==
    [][\A i \in DOMAIN probers :
          (probers[i].pc = "pinging" /\ probers'[i].pc = "observed"
             /\ probers[i].obsTime # -1) =>
              probers'[i].obsTime - probers[i].obsTime
                 = TickInterval + (now - probers[i].pingStart)]_vars

(* a second observation after a request that took time, all answers 200 *)
C8_Witness ==
    \E i \in DOMAIN probers :
        /\ probers[i].pc = "observed"
        /\ probers[i].pings >= 2
        /\ probers[i].err = "nil"
        /\ probers[i].obs[2] > 0
        /\ stdout.line = ""

(* C9: ping returns nil exactly when the request could be built, a
   response came before the deadline and its status is 200 *)
C9_SuccessIffStatus200 ==
    \A i \in DOMAIN probers :
        probers[i].pc = "observed" =>
            ((probers[i].err = "nil") <=>
               (/\ probers[i].endpoint[1] = "http://"
                /\ probers[i].outcome.kind = "resp"
                /\ probers[i].outcome.status = 200))

(* a response with another 2xx status was taken as a failure *)
C9_Witness ==
    \E i \in DOMAIN probers :
        /\ probers[i].pc = "observed"
        /\ probers[i].outcome = [kind |-> "resp", status |-> 204]
        /\ probers[i].err = "status"

(* C10: a lookup that fails and a listen that fails end the process at
   once with exit status 1, before srv.Serve is reached and any inbound
   request is taken; the hostname whose lookup failed has no prober *)
C10_StartupErrorsFatal ==
    /\ \A h \in DOMAIN lookups :
         lookups[h].err =>
            /\ pcMain = "exited"
            /\ fatal = "lookup"
            /\ StartedBy(h) = {}
    /\ fatal \in {"lookup", "listen"} =>
            /\ pcMain = "exited"
            /\ exitCode = 1
            /\ pcShut = "none"
            /\ pcSig = "none"
            /\ requests = <<>>
            /\ \A i \in DOMAIN probers : probers[i].pc = "killed"

(* the lookup of the second hostname failed while the prober of the first
   was in a request *)
C10_Witness ==
    /\ fatal = "lookup"
    /\ Len(lookups) = 2
    /\ \E i \in DOMAIN probers : probers[i].pingStart >= 0


(* the /ping requests from the address ip whose handler has returned *)
DoneFrom(ip) ==
    { k \in DOMAIN requests :
        requests[k].path = "/ping" /\ requests[k].pc = "done" /\ requests[k].ip = ip }

(* the label values pingHandler counts the request k under *)
CountedUnder(k) == <<Split(requests[k].remoteAddr, ":")[1]>>

(* C11 as stated: the counter a /ping request is counted under is the
   counter of its source address: it has been incremented once for every
   handled request from that address, and by nothing else, however the
   handlers interleave *)
C11_CounterPerSourceIP ==
    \A k \in DOMAIN requests :
        (requests[k].path = "/ping" /\ requests[k].pc = "done") =>
            /\ CountedUnder(k) \in DOMAIN pingRequests
            /\ pingRequests[CountedUnder(k)] = Cardinality(DoneFrom(requests[k].ip))

(* what holds instead: no increment is lost, but the counter is the one of
   the text before the first colon of RemoteAddr, which all bracketed IPv6
   addresses share *)
C11_NoLostIncrement ==
    \A l \in DOMAIN pingRequests :
        pingRequests[l] = Cardinality({ k \in DOMAIN requests :
            requests[k].path = "/ping" /\ requests[k].pc = "done" /\ CountedUnder(k) = l })

(* two requests from one IPv4 address, handled at the same time, are both
   counted *)
C11_Witness ==
    \E k, m \in DOMAIN requests :
        /\ k # m
        /\ requests[k].ip = requests[m].ip
        /\ ~IsIPv6(requests[k].ip)
        /\ requests[k].pc = "done" /\ requests[m].pc = "done"
        /\ requests[k].path = "/ping" /\ requests[m].path = "/ping"
        /\ pingRequests[CountedUnder(k)] = 2

(* C12 as stated: when the port can be bound, the process does not end
   before it serves *)
C12_BindableReachesServing ==
    portFree => ~(pcMain = "exited" /\ fatal \in {"lookup", "listen"})

(* C12: when the port can be bound, the startup reaches the serving state
   unless the lookup of a configured hostname fails, which needs a
   REMOTE_ADDR that is not empty; and every answer of /healthz is 200 *)
C12_ServingUnlessLookupFails ==
    /\ portFree => <>(\/ pcMain = "serving"
                      \/ fatal = "lookup" /\ remoteAddrs # <<>>)
    /\ [](\A k \in DOMAIN requests :
            (requests[k].path = "/healthz" /\ requests[k].pc = "done") =>
                requests[k].status = 200)

(* with an empty REMOTE_ADDR the process serves and /healthz was answered *)
C12_Witness ==
    /\ remoteAddrs = <<>>
    /\ pcMain = "serving"
    /\ \E k \in DOMAIN requests :
          /\ requests[k].path = "/healthz"
          /\ requests[k].pc = "done"
          /\ requests[k].status = 200

(* C13: a prober whose timer is due can send its request and a request
   that came in can be handled, whatever the other probers are doing; a
   step of one prober leaves the other probers and the inbound requests as
   they are, and the handling of a request leaves the probers and the
   histogram as they are *)
C13_ProbersIndependent ==
    [][/\ \A i \in DOMAIN probers :
            (Running /\ probers[i].pc = "waiting" /\ now >= probers[i].timer) =>
                ENABLED ProberTick(i)
       /\ \A k \in DOMAIN requests :
            /\ (Running /\ requests[k].pc = "handling") =>
                  ENABLED (HandlerWrite(k) \/ healthHandler(k))
            /\ (Running /\ requests[k].pc = "written") => ENABLED HandlerInc(k)
       /\ pcMain' # "exited" =>
            /\ \A i, j \in DOMAIN probers :
                  (i # j /\ probers'[i] # probers[i]) => probers'[j] = probers[j]
            /\ probers' # probers =>
                  (requests' = requests /\ pingRequests' = pingRequests)
            /\ requests' # requests =>
                  (probers' = probers /\ callSummary' = callSummary /\ stdout' = stdout)
      ]_vars

(* one prober has been waiting for its response for two ticks or more;
   meanwhile the other one has sent a request and got its result, and a
   /ping request is being handled *)
C13_Witness ==
    \E i, j \in DOMAIN probers :
        /\ i # j
        /\ probers[i].pc = "pinging"
        /\ now >= probers[i].pingStart + 2 * TickInterval
        /\ probers[j].pingStart > probers[i].pingStart
        /\ probers[j].obsTime >= probers[j].pingStart
        /\ \E k \in DOMAIN requests :
              requests[k].path = "/ping" /\ requests[k].pc = "written"

(* C14: a request is never in flight for more than the 10 seconds of its
   context: at the deadline ping can return, no later time is reached
   inside the request, and no duration above 10 s is observed *)
C14_PingBoundedByTimeout ==
    \A i \in DOMAIN probers :
        /\ probers[i].pc = "pinging" =>
              /\ now <= probers[i].pingStart + PingTimeout
              /\ (Running /\ now = probers[i].pingStart + PingTimeout) =>
                    ENABLED PingReturn(i)
        /\ probers[i].obs # <<>> => probers[i].obs[2] <= Milliseconds(PingTimeout)

(* a request ran into its deadline and ping returned after 10 s *)
C14_Witness ==
    \E i \in DOMAIN probers :
        /\ probers[i].pc = "observed"
        /\ probers[i].outcome.kind = "timeout"
        /\ probers[i].obs[2] = Milliseconds(PingTimeout)
        /\ now = probers[i].pingStart + PingTimeout

(* C15: a prober sends a request only from its select, that is when no
   request of its own is in flight, at least one tick interval after the
   prober was started and at least one tick interval after its previous
   request returned; the timer of a select is armed once, when the select
   is entered, one tick interval ahead *)
C15_OnePingAtATime ==
    [][/\ \A i \in DOMAIN probers' \ DOMAIN probers :
            /\ probers'[i].pc = "waiting"
            /\ probers'[i].pingStart = -1
            /\ probers'[i].timer = now + TickInterval
       /\ \A i \in DOMAIN probers :
            /\ probers'[i].pingStart # probers[i].pingStart =>
                  /\ probers[i].pc = "waiting"
                  /\ probers'[i].pc = "pinging"
                  /\ probers'[i].pingStart = now
                  /\ now >= probers[i].timer
                  /\ probers[i].pings > 0 => now >= probers[i].obsTime + TickInterval
            /\ probers'[i].pc = "pinging" =>
                  (probers[i].pc = "pinging" \/ probers'[i].pingStart # probers[i].pingStart)
            /\ (probers[i].pc = "waiting" /\ probers'[i].pc = "waiting") =>
                  probers'[i].timer = probers[i].timer
            /\ (probers[i].pc # "waiting" /\ probers'[i].pc = "waiting") =>
                  /\ probers[i].pc = "observed"
                  /\ probers'[i].timer = now + TickInterval
      ]_vars

(* a prober is in its third request or a later one, sent one tick interval
   after the one before returned *)
C15_Witness ==
    \E i \in DOMAIN probers :
        /\ probers[i].pc = "pinging"
        /\ probers[i].pings >= 2
        /\ probers[i].pingStart = probers[i].obsTime + TickInterval

(* the observations recorded under the endpoint e *)
ObservedFor(e) ==
    IF <<"az1", e>> \in DOMAIN callSummary THEN callSummary[<<"az1", e>>].count ELSE 0

(* the pings completed by the probers 1..n whose endpoint is e *)
RECURSIVE PingsOf(_, _)
PingsOf(e, n) ==
    IF n = 0 THEN 0
    ELSE PingsOf(e, n - 1) + (IF probers[n].endpoint = e THEN probers[n].pings ELSE 0)

(* C16 as stated: the observations recorded for the endpoint of a prober
   are as many as the pings that prober has completed *)
C16_ObservationsOfProber ==
    \A i \in DOMAIN probers : ObservedFor(probers[i].endpoint) = probers[i].pings

(* C16 amended: the observations recorded for an endpoint are as many as
   the pings completed by all the probers of that endpoint together, which
   is the count of the one prober when it alone has the endpoint; and there
   are observations under the endpoints of the probers only *)
C16_ObservationsOfEndpoint ==
    /\ \A i \in DOMAIN probers :
          ObservedFor(probers[i].endpoint) = PingsOf(probers[i].endpoint, Len(probers))
    /\ \A l \in DOMAIN callSummary :
          \E i \in DOMAIN probers : l = <<"az1", probers[i].endpoint>>

(* two probers have the same endpoint; both have completed pings, the last
   one of them a failed one *)
C16_Witness ==
    \E i, j \in DOMAIN probers :
        /\ i # j
        /\ probers[i].endpoint = probers[j].endpoint
        /\ probers[i].pings >= 1
        /\ probers[j].pings >= 2
        /\ probers[j].pc = "observed" /\ probers[j].err # "nil"
        /\ ObservedFor(probers[i].endpoint) = probers[i].pings + probers[j].pings

(* C17: once a signal is delivered to the serving process, the process
   ends without a further signal; it ends through the cancelled context
   and the Shutdown of the inbound server, no goroutine of a prober is left
   then, and the server on :8001 is shut down by the cancelled context
   only *)
C17_SignalEndsProcess ==
    /\ (sigs > 0) ~> (pcMain = "exited")
    /\ []((pcMain = "exited" /\ fatal = "serve") =>
            /\ cancelled /\ sigs = 0
            /\ \A i \in DOMAIN probers : probers[i].pc \in {"returned", "killed"})
    /\ []((pcProm = "shutdown" \/ pcShut \in {"draining", "returned"}) => cancelled)

(* the process has ended after a signal that came while a prober had a
   request in flight, and the server on :8001 was shut down first *)
C17_Witness ==
    /\ pcMain = "exited"
    /\ fatal = "serve"
    /\ pcProm = "shutdown"
    /\ \E i \in DOMAIN probers :
          /\ probers[i].pc = "killed"
          /\ probers[i].pingStart > probers[i].obsTime
          /\ probers[i].pingStart < cancelTime

====
